---- MODULE Spec2Model ----
(***************************************************************************)
(* Model of the server-side game session (class Game) of ITMO_webGame:    *)
(* the 30x30 field, the per-player sums, the turn pointer, and the        *)
(* handlers of the inbound messages (playerMove, repeatGame, malformed),  *)
(* the start of the listeners in the constructor and destroy().           *)
(* Arrays are 0-based in the source; coordinates are tuples <<row, col>>  *)
(* whose components are read as c[1] (row) and c[2] (col).                *)
(***************************************************************************)
EXTENDS Integers, Sequences, FiniteSets, TLC

VARIABLES
    gameField,      \* Game._gameField: row -> col -> cell class
    playersState,   \* Game._playersState: player -> accumulated sum
    currentMove,    \* Game._currentMove: the player whose turn it is
    sent,           \* messages handed to _sendMessage by the last handler, in order
    threw,          \* the last handler ended with an uncaught TypeError
    lastReq,        \* the message or event that arrived last
    heard,          \* a listener of the session ran for it
    anchorUsed,     \* the `from` corner the last handler passed to _makeMove
    nMoves,         \* moves accepted since the last start
    diceLog,        \* player -> dice pair -> number of accepted moves with it
    firstAnchor,    \* colour -> corner used by its first validated move
    fairPlay,       \* every move accepted since the last start was as the client sends it
    finished,       \* a gameResult was broadcast since the last start
    wiped,          \* what the restart just handled discarded
    listening,      \* _listenMessages has attached the listeners
    readyState,     \* player -> readyState of the player's WebSocket
    torn,           \* destroy() ran: this.destroy is the no-op, _session is null
    mapKind,        \* _playersState is the sums, null, or a fresh empty WeakMap
    abortedCount,   \* player -> gameAborted messages handed to the player's socket
    destroyCalls,   \* invocations of this.destroy() so far
    tornMsgs,       \* messages handled since destroy() ran
    screen,         \* player -> what the player's game screen shows
    geomIn,         \* input of the move geometry functions
    geomOut         \* their output

(* the state of the connections and of the teardown *)
lifeVars == <<listening, readyState, torn, mapKind, abortedCount, destroyCalls,
              tornMsgs>>

vars == <<gameField, playersState, currentMove, sent, threw, lastReq, heard,
          anchorUsed, nMoves, diceLog, firstAnchor, fairPlay, finished, wiped,
          listening, readyState, torn, mapKind, abortedCount, destroyCalls,
          tornMsgs, screen, geomIn, geomOut>>

----------------------------------------------------------------------------
(* Program constants *)

PLAYERS_IN_SESSION == 2
Size == 30
Last == 29
WinScore == 450

(* Bounds of the model *)

MaxMoves == 7
MaxN == 12
MaxLifeMoves == 3
MaxDestroyCalls == 2
MaxTornMsgs == 2
MaxViewMoves == 3

Players == 1..PLAYERS_IN_SESSION
Rows == 0..(Size - 1)
Default == "default__cell"
NoCorner == <<>>
Hole == <<>>

----------------------------------------------------------------------------
(* Static helpers of class Game *)

GenerateField == [i \in Rows |-> [j \in Rows |-> Default]]

CellType(color) == IF color = "r" THEN "red__cell" ELSE "blue__cell"

CheckWin_strict(sum) == sum > WinScore

CheckWin(sum) == sum >= WinScore

IsFieldEmpty(field) ==
    /\ field[0][0] = Default
    /\ field[0][Last] = Default
    /\ field[Last][0] = Default
    /\ field[Last][Last] = Default

IsCornerEmpty(field) ==
    IF field[0][0] # Default THEN field[Last][Last] = Default
    ELSE IF field[0][Last] # Default THEN field[Last][0] = Default
    ELSE IF field[Last][0] # Default THEN field[0][Last] = Default
    ELSE IF field[Last][Last] # Default THEN field[0][0] = Default
    ELSE FALSE

FindFirstMove(field) ==
    IF field[Last][Last] # Default THEN <<0, 0>>
    ELSE IF field[Last][0] # Default THEN <<0, Last>>
    ELSE IF field[0][Last] # Default THEN <<Last, 0>>
    ELSE IF field[0][0] # Default THEN <<Last, Last>>
    ELSE NoCorner

FindCurrentMove(field, color) ==
    LET type == CellType(color) IN
    IF field[Last][Last] = type THEN <<Last, Last>>
    ELSE IF field[Last][0] = type THEN <<Last, 0>>
    ELSE IF field[0][Last] = type THEN <<0, Last>>
    ELSE IF field[0][0] = type THEN <<0, 0>>
    ELSE NoCorner

FactorizationArray_below(n) ==
    [k \in 1..(n - 1) |-> IF n % k = 0 THEN <<k - 1, (n \div k) - 1>> ELSE Hole]

(* numbers[i - 1] is assigned for the divisors i of n only; the other     *)
(* indices below the array length stay holes.                              *)
FactorizationArray(n) ==
    [k \in 1..n |-> IF n % k = 0 THEN <<k - 1, (n \div k) - 1>> ELSE Hole]

(* Array.prototype.filter never visits a hole, so the result is dense.    *)
FilterHoles(numbers) == SelectSeq(numbers, LAMBDA item : item # Hole)

Factorization(n) == FilterHoles(FactorizationArray(n))

ShowMoves(primeNumbers, firstSign, secondSign, row, col) ==
    [k \in 1..Len(primeNumbers) |->
        << IF firstSign = "+" THEN primeNumbers[k][1] + row
                              ELSE row - primeNumbers[k][1],
           IF secondSign = "+" THEN primeNumbers[k][2] + col
                               ELSE col - primeNumbers[k][2] >>]

CheckTo(moves, row, col) == \E k \in DOMAIN moves : moves[k] = <<row, col>>

Min(a, b) == IF a < b THEN a ELSE b

(* The scan of _areCellsEmpty, row by row: a row index outside the field  *)
(* makes field[i] undefined and field[i][j] a TypeError; a column outside *)
(* the row reads undefined, which is not 'default__cell'.                 *)
RECURSIVE ScanRows(_, _, _, _, _)
ScanRows(field, i, rowT, colF, colT) ==
    IF i > rowT THEN "true"
    ELSE IF i \notin Rows THEN "throw"
    ELSE IF \E j \in colF..colT : j \notin Rows \/ field[i][j] # Default
         THEN "false"
    ELSE ScanRows(field, i + 1, rowT, colF, colT)

AreCellsEmpty_fromOnly(field, rowFrom, colFrom, rowTo, colTo) ==
    ScanRows(field, rowFrom, rowFrom, colFrom, colFrom)

AreCellsEmpty(field, rowFrom, colFrom, rowTo, colTo) ==
    LET rowF == Min(rowFrom, rowTo)
        colF == Min(colFrom, colTo)
        rowT == IF rowF = rowTo THEN rowFrom ELSE rowTo
        colT == IF colF = colTo THEN colFrom ELSE colTo
    IN  ScanRows(field, rowF, rowT, colF, colT)

PossibleMoves(from, rowFrom, colFrom, dices) ==
    LET primeNumbersArray == Factorization(dices[1] + dices[2]) IN
    IF from[1] = 0
    THEN IF from[2] = 0
         THEN ShowMoves(primeNumbersArray, "+", "+", rowFrom, colFrom)
         ELSE ShowMoves(primeNumbersArray, "+", "-", rowFrom, colFrom)
    ELSE IF from[1] = Last
    THEN IF from[2] = 0
         THEN ShowMoves(primeNumbersArray, "-", "+", rowFrom, colFrom)
         ELSE ShowMoves(primeNumbersArray, "-", "-", rowFrom, colFrom)
    ELSE <<>>

MakeMove(field, from, rowFrom, colFrom, rowTo, colTo, dices) ==
    IF CheckTo(PossibleMoves(from, rowFrom, colFrom, dices), rowTo, colTo)
    THEN AreCellsEmpty(field, rowFrom, colFrom, rowTo, colTo)
    ELSE "false"

CellFree(field, row, col) ==
    (IF row # 0 /\ field[row - 1][col] = Default
        THEN {<<row - 1, col>>} ELSE {})
    \cup (IF col # 0 /\ field[row][col - 1] = Default
        THEN {<<row, col - 1>>} ELSE {})
    \cup (IF row + 1 \in Rows /\ field[row + 1][col] = Default
        THEN {<<row + 1, col>>} ELSE {})
    \cup (IF col + 1 \in Rows /\ field[row][col + 1] = Default
        THEN {<<row, col + 1>>} ELSE {})

FindFreeCells(field, color) ==
    UNION {CellFree(field, i, j) :
             <<i, j>> \in {c \in Rows \X Rows : field[c[1]][c[2]] = CellType(color)}}

CheckFirstMove(field, rowFrom, colFrom, rowTo, colTo, dices) ==
    IF rowFrom > 0 /\ rowFrom < Last THEN "false"
    ELSE IF colFrom > 0 /\ colFrom < Last THEN "false"
    ELSE MakeMove(field, <<rowFrom, colFrom>>, rowFrom, colFrom, rowTo, colTo, dices)

CheckMove(from, field, rowFrom, colFrom, rowTo, colTo, dices, color) ==
    IF from = NoCorner THEN "throw"
    ELSE IF field[from[1]][from[2]] = Default
    THEN IF rowFrom # from[1] \/ colFrom # from[2]
         THEN "false"
         ELSE MakeMove(field, from, rowFrom, colFrom, rowTo, colTo, dices)
    ELSE IF <<rowFrom, colFrom>> \in FindFreeCells(field, color)
    THEN MakeMove(field, from, rowFrom, colFrom, rowTo, colTo, dices)
    ELSE "false"

FillField(color, field, rowFrom, colFrom, rowTo, colTo) ==
    LET rowF == Min(rowFrom, rowTo)
        colF == Min(colFrom, colTo)
        rowT == IF rowF = rowTo THEN rowFrom ELSE rowTo
        colT == IF colF = colTo THEN colFrom ELSE colTo
    IN  [i \in Rows |-> [j \in Rows |->
            IF i \in rowF..rowT /\ j \in colF..colT
            THEN CellType(color) ELSE field[i][j]]]

----------------------------------------------------------------------------
(* Messages *)

NoField == <<>>
NoMove == <<>>

Msg(to, type, message, myTurn, field, color, win) ==
    [to |-> to, type |-> type, message |-> message, myTurn |-> myTurn,
     field |-> field, color |-> color, win |-> win]

IncorrectRequest(player, message) ==
    Msg(player, "incorrectRequest", message, FALSE, NoField, "", FALSE)

GameStarted(player, myTurn, field, color) ==
    Msg(player, "gameStarted", "", myTurn, field, color, FALSE)

ChangePlayer(player, myTurn, field, color) ==
    Msg(player, "changePlayer", "", myTurn, field, color, FALSE)

GameResult(player, win) ==
    Msg(player, "gameResult", "", FALSE, NoField, "", win)

Move(from, to, color, sum, dices) ==
    [from |-> from, to |-> to, color |-> color, sum |-> sum, dices |-> dices]

(* The playerMove payloads the model delivers.  The server reads from,    *)
(* to, color, sum and dices from the payload and checks none of them      *)
(* against the sender, so every payload may come from either player.      *)
Payloads ==
    { Move(<<0, 0>>,   <<2, 1>>,   "r", 0, <<3, 3>>),
      Move(<<1, 0>>,   <<2, 1>>,   "r", 0, <<3, 3>>),
      Move(<<1, 0>>,   <<2, 1>>,   "r", 1, <<3, 3>>),
      Move(<<3, 0>>,   <<4, 2>>,   "r", 0, <<3, 3>>),
      Move(<<0, 2>>,   <<0, 1>>,   "r", 0, <<1, 1>>),
      Move(<<29, 29>>, <<27, 28>>, "b", 0, <<3, 3>>),
      Move(<<29, 29>>, <<27, 28>>, "r", 0, <<3, 3>>),
      Move(<<0, 29>>,  <<2, 28>>,  "b", 0, <<3, 3>>),
      Move(<<26, 29>>, <<25, 27>>, "b", 0, <<3, 3>>),
      Move(<<0, 0>>,   <<14, 29>>, "r", 0, <<225, 225>>),
      Move(<<29, 29>>, <<0, 15>>,  "b", 0, <<225, 225>>),
      Move(<<0, 0>>,   <<0, 11>>,  "r", 0, <<6, 6>>),
      Move(<<0, 12>>,  <<0, 23>>,  "r", 0, <<6, 6>>),
      Move(<<0, 24>>,  <<0, 29>>,  "r", 0, <<3, 3>>),
      Move(<<1, 5>>,   <<2, 3>>,   "r", 0, <<3, 3>>),
      Move(<<24, 29>>, <<23, 27>>, "b", 0, <<3, 3>>) }

DicePairs == {m.dices : m \in Payloads}

GeomIn(n, firstSign, secondSign, row, col) ==
    [n |-> n, firstSign |-> firstSign, secondSign |-> secondSign,
     row |-> row, col |-> col]

GeomOut(done, numbers, moves) ==
    [done |-> done, numbers |-> numbers, moves |-> moves]

NoGeomIn == GeomIn(0, "+", "+", 0, 0)
NoGeomOut == GeomOut(FALSE, <<>>, <<>>)

(* Messages that are not a playerMove: a restart request, a payload that  *)
(* _parseMessage turns into incorrectRequest, an incorrectResponse and a  *)
(* message of an unknown type.                                            *)
OtherTypes == {"incorrectRequest", "incorrectResponse", "unknown"}

Req(player, type, move) == [player |-> player, type |-> type, move |-> move]

----------------------------------------------------------------------------
(* Game._sendStartMessage *)

(* lines 97-112: the colour sent to each player at the start *)
AssignedColor(player) == IF player = 1 THEN "r" ELSE "b"

StartMessages(field) ==
    << GameStarted(1, TRUE, field, AssignedColor(1)),
       GameStarted(2, FALSE, field, AssignedColor(2)) >>

(* the payload the client builds: sum stays 0, color is the one received  *)
(* from the server, each die is 1 + floor(random * 6)                      *)
AsClientSends(player, m) ==
    /\ m.sum = 0
    /\ m.color = AssignedColor(player)
    /\ m.dices[1] \in 1..6
    /\ m.dices[2] \in 1..6

(* screens/game.js: the cells fillField creates, the playerState of the    *)
(* module, and no snapshot applied yet                                     *)
NoMsg == Msg(0, "none", "", FALSE, NoField, "", FALSE)

ScreenAtLoad ==
    [cells |-> GenerateField, color |-> "r", myTurn |-> FALSE, last |-> NoMsg]

Wipe(moves, wasFinished) == [moves |-> moves, finished |-> wasFinished]

NoWipe == Wipe(0, FALSE)

(* the session is built from two open connections *)
ConnectionsAtStart ==
    /\ readyState = [p \in Players |-> "OPEN"]
    /\ torn = FALSE
    /\ mapKind = "scores"
    /\ abortedCount = [p \in Players |-> 0]
    /\ destroyCalls = 0
    /\ tornMsgs = 0

(* a message of the player reaches a listener of a session that destroy() *)
(* has not torn down                                                       *)
Live(player) == listening /\ ~torn /\ readyState[player] # "CLOSED"

SendStartMessage_keepSums ==
    /\ gameField' = GenerateField
    /\ currentMove' = 1
    /\ playersState' = playersState
    /\ sent' = StartMessages(GenerateField)

SendStartMessage ==
    /\ gameField' = GenerateField
    /\ currentMove' = 1
    /\ playersState' = [p \in Players |-> 0]
    /\ sent' = StartMessages(GenerateField)

Init ==
    /\ gameField = GenerateField
    /\ currentMove = 1
    /\ playersState = [p \in Players |-> 0]
    /\ sent = StartMessages(GenerateField)
    /\ threw = FALSE
    /\ lastReq = Req(0, "none", NoMove)
    /\ anchorUsed = NoCorner
    /\ nMoves = 0
    /\ diceLog = [p \in Players |-> [d \in DicePairs |-> 0]]
    /\ firstAnchor = [c \in {"r", "b"} |-> NoCorner]
    /\ fairPlay = TRUE
    /\ heard = TRUE
    /\ finished = FALSE
    /\ wiped = NoWipe
    /\ listening = TRUE
    /\ ConnectionsAtStart
    /\ screen = [p \in Players |-> ScreenAtLoad]
    /\ geomIn = NoGeomIn
    /\ geomOut = NoGeomOut

----------------------------------------------------------------------------
(* Game._onPlayerMove *)

(* lines 287-293: the corner handed to _checkMove *)
ResolveFrom(field, color) ==
    IF IsCornerEmpty(field) THEN FindFirstMove(field)
    ELSE FindCurrentMove(field, color)

(* lines 265-294: the outcome of the checks made when move.sum === 0 *)
ValidateMove(field, m) ==
    IF IsFieldEmpty(field)
    THEN CheckFirstMove(field, m.from[1], m.from[2], m.to[1], m.to[2], m.dices)
    ELSE CheckMove(ResolveFrom(field, m.color), field,
                   m.from[1], m.from[2], m.to[1], m.to[2], m.dices, m.color)

(* the corner _makeMove takes its signs from *)
AnchorOf(field, m) ==
    IF IsFieldEmpty(field) THEN m.from ELSE ResolveFrom(field, m.color)

(* line 260: the checks run only for a payload whose sum is 0 *)
NeedsValidation(m) == m.sum = 0

ScoreAfter_firstDie(sum, dices) == sum + dices[1]

(* line 312 *)
ScoreAfter(sum, dices) == sum + dices[1] + dices[2]

NextMover_same(currentPlayer) == currentPlayer

(* lines 314-322: the other player of the session *)
NextMover(currentPlayer) ==
    IF \E player \in Players : player # currentPlayer
    THEN CHOOSE player \in Players :
            /\ player # currentPlayer
            /\ \A q \in Players : q # currentPlayer => q <= player
    ELSE currentPlayer

(* line 244 *)
IsOnTurn(player) == currentMove = player

Results_anyWin(state) ==
    [k \in 1..PLAYERS_IN_SESSION |->
        GameResult(k, \E q \in Players : CheckWin(state[q]))]

Results(state) ==
    [k \in 1..PLAYERS_IN_SESSION |-> GameResult(k, CheckWin(state[k]))]

OnPlayerMove(currentPlayer, m) ==
    /\ Live(currentPlayer)
    /\ nMoves < MaxMoves
    /\ lastReq' = Req(currentPlayer, "playerMove", m)
    /\ heard' = TRUE
    /\ wiped' = NoWipe
    /\ UNCHANGED <<lifeVars, geomIn, geomOut, screen>>
    /\ IF ~IsOnTurn(currentPlayer)
       THEN /\ sent' = <<IncorrectRequest(currentPlayer, "Not your turn")>>
            /\ threw' = FALSE
            /\ anchorUsed' = NoCorner
            /\ UNCHANGED <<gameField, playersState, currentMove, nMoves,
                           diceLog, firstAnchor, fairPlay, finished>>
       ELSE LET checked == NeedsValidation(m)
                verdict == IF checked THEN ValidateMove(gameField, m) ELSE "true"
            IN
            IF verdict = "false"
            THEN /\ sent' = <<IncorrectRequest(currentPlayer, "wrong move")>>
                 /\ threw' = FALSE
                 /\ anchorUsed' = NoCorner
                 /\ UNCHANGED <<gameField, playersState, currentMove, nMoves,
                                diceLog, firstAnchor, fairPlay, finished>>
            ELSE IF verdict = "throw"
            THEN /\ sent' = <<>>
                 /\ threw' = TRUE
                 /\ anchorUsed' = NoCorner
                 /\ UNCHANGED <<gameField, playersState, currentMove, nMoves,
                                diceLog, firstAnchor, fairPlay, finished>>
            ELSE LET field == IF checked
                              THEN FillField(m.color, gameField, m.from[1],
                                             m.from[2], m.to[1], m.to[2])
                              ELSE gameField
                     state == [playersState EXCEPT
                                 ![currentPlayer] = ScoreAfter(@, m.dices)]
                     player2 == NextMover(currentPlayer)
                     winFlag == \E player \in Players : CheckWin(state[player])
                 IN
                 /\ gameField' = field
                 /\ playersState' = state
                 /\ currentMove' = player2
                 /\ threw' = FALSE
                 /\ sent' = IF ~winFlag
                            THEN << ChangePlayer(player2, TRUE, field,
                                        IF m.color = "r" THEN "b" ELSE "r"),
                                    ChangePlayer(currentPlayer, FALSE, field,
                                        m.color) >>
                            ELSE Results(state)
                 /\ anchorUsed' = IF checked THEN AnchorOf(gameField, m)
                                  ELSE NoCorner
                 /\ nMoves' = nMoves + 1
                 /\ diceLog' = [diceLog EXCEPT ![currentPlayer][m.dices] = @ + 1]
                 /\ firstAnchor' =
                      IF checked /\ firstAnchor[m.color] = NoCorner
                      THEN [firstAnchor EXCEPT ![m.color] = AnchorOf(gameField, m)]
                      ELSE firstAnchor
                 /\ fairPlay' = (fairPlay /\ AsClientSends(currentPlayer, m))
                 /\ finished' = (finished \/ winFlag)

(* Game._processMessage, case 'repeatGame' *)
OnRepeatGame(player) ==
    /\ Live(player)
    /\ SendStartMessage
    /\ lastReq' = Req(player, "repeatGame", NoMove)
    /\ heard' = TRUE
    /\ wiped' = Wipe(nMoves, finished)
    /\ finished' = FALSE
    /\ threw' = FALSE
    /\ anchorUsed' = NoCorner
    /\ nMoves' = 0
    /\ diceLog' = [p \in Players |-> [d \in DicePairs |-> 0]]
    /\ firstAnchor' = [c \in {"r", "b"} |-> NoCorner]
    /\ fairPlay' = TRUE
    /\ UNCHANGED <<lifeVars, geomIn, geomOut, screen>>

(* Game._processMessage, cases 'incorrectRequest', 'incorrectResponse'    *)
(* and default                                                             *)
OnOtherMessage(player, type) ==
    /\ Live(player)
    /\ lastReq' = Req(player, type, NoMove)
    /\ heard' = TRUE
    /\ wiped' = NoWipe
    /\ sent' = IF type = "incorrectRequest"
               THEN <<IncorrectRequest(player, "Can't parse JSON data")>>
               ELSE IF type = "incorrectResponse" THEN <<>>
               ELSE <<IncorrectRequest(player, "Unknown message type")>>
    /\ threw' = FALSE
    /\ anchorUsed' = NoCorner
    /\ UNCHANGED <<gameField, playersState, currentMove, nMoves, diceLog,
                   firstAnchor, fairPlay, finished, lifeVars, geomIn, geomOut,
                   screen>>

Next ==
    \/ \E player \in Players, m \in Payloads : OnPlayerMove(player, m)
    \/ \E player \in Players : OnRepeatGame(player)
    \/ \E player \in Players, type \in OtherTypes : OnOtherMessage(player, type)

Spec == Init /\ [][Next]_vars

----------------------------------------------------------------------------
(* The connections: the start of the listeners, close events, destroy()    *)
(* and the messages that still arrive once destroy() has run.              *)

GameAborted(player) == Msg(player, "gameAborted", "", FALSE, NoField, "", FALSE)

(* constructor, lines 47-54: _listenMessages runs only when every          *)
(* gameStarted send succeeded; a send to a socket that is not open fails   *)
LifeInit ==
    /\ gameField = GenerateField
    /\ currentMove = 1
    /\ playersState = [p \in Players |-> 0]
    /\ sent = StartMessages(GenerateField)
    /\ threw = FALSE
    /\ lastReq = Req(0, "none", NoMove)
    /\ anchorUsed = NoCorner
    /\ nMoves = 0
    /\ diceLog = [p \in Players |-> [d \in DicePairs |-> 0]]
    /\ firstAnchor = [c \in {"r", "b"} |-> NoCorner]
    /\ fairPlay = TRUE
    /\ heard = TRUE
    /\ finished = FALSE
    /\ wiped = NoWipe
    /\ \E failed \in SUBSET Players :
          /\ listening = (failed = {})
          /\ readyState = [p \in Players |->
                             IF p \in failed THEN "CLOSED" ELSE "OPEN"]
    /\ torn = FALSE
    /\ mapKind = "scores"
    /\ abortedCount = [p \in Players |-> 0]
    /\ destroyCalls = 0
    /\ tornMsgs = 0
    /\ screen = [p \in Players |-> ScreenAtLoad]
    /\ geomIn = NoGeomIn
    /\ geomOut = NoGeomOut

(* line 63: after the first call this.destroy is the empty function *)
DestroyReplaced_never(t) == FALSE

DestroyReplaced(t) == t

(* lines 67-70: the sockets destroy() still writes to *)
StillOpen(rs) == {p \in Players : rs[p] # "CLOSED" /\ rs[p] # "CLOSING"}

(* lines 72-77, in the order of the session *)
AbortMessages(rs) ==
    LET open == SelectSeq(<<1, 2>>, LAMBDA p : p \in StillOpen(rs))
    IN [k \in 1..Len(open) |-> GameAborted(open[k])]

(* one invocation of this.destroy() with the sockets in the states rs;     *)
(* the body on a session that is already null fails at the for-of          *)
RunDestroy(rs) ==
    /\ destroyCalls' = destroyCalls + 1
    /\ IF DestroyReplaced(torn)
       THEN /\ sent' = <<>>
            /\ threw' = FALSE
            /\ readyState' = rs
            /\ UNCHANGED <<torn, mapKind, abortedCount>>
       ELSE IF torn
       THEN /\ sent' = <<>>
            /\ threw' = TRUE
            /\ readyState' = rs
            /\ UNCHANGED <<torn, mapKind, abortedCount>>
       ELSE /\ sent' = AbortMessages(rs)
            /\ threw' = FALSE
            /\ readyState' = [p \in Players |->
                                IF p \in StillOpen(rs) THEN "CLOSING" ELSE rs[p]]
            /\ torn' = TRUE
            /\ mapKind' = "null"
            /\ abortedCount' = [p \in Players |->
                                  IF p \in StillOpen(rs) THEN abortedCount[p] + 1
                                  ELSE abortedCount[p]]

(* the 'close' listener of _listenMessages, line 163 *)
OnClose(player) ==
    /\ listening
    /\ readyState[player] # "CLOSED"
    /\ lastReq' = Req(player, "close", NoMove)
    /\ heard' = TRUE
    /\ wiped' = NoWipe
    /\ anchorUsed' = NoCorner
    /\ RunDestroy([readyState EXCEPT ![player] = "CLOSED"])
    /\ UNCHANGED <<gameField, playersState, currentMove, nMoves, diceLog,
                   firstAnchor, fairPlay, finished, listening, tornMsgs,
                   geomIn, geomOut,
                   screen>>

(* a call of destroy() by the owner of the session *)
Destroy ==
    /\ destroyCalls < MaxDestroyCalls
    /\ lastReq' = Req(0, "destroy", NoMove)
    /\ heard' = TRUE
    /\ wiped' = NoWipe
    /\ anchorUsed' = NoCorner
    /\ RunDestroy(readyState)
    /\ UNCHANGED <<gameField, playersState, currentMove, nMoves, diceLog,
                   firstAnchor, fairPlay, finished, listening, tornMsgs,
                   geomIn, geomOut,
                   screen>>

(* a message or a close event on a socket that has no listener *)
UnheardTypes == {"playerMove", "repeatGame", "close"}

Unheard(player, type, m) ==
    /\ ~listening
    /\ readyState[player] = "OPEN"
    /\ lastReq' = Req(player, type, IF type = "playerMove" THEN m ELSE NoMove)
    /\ heard' = FALSE
    /\ wiped' = NoWipe
    /\ sent' = <<>>
    /\ threw' = FALSE
    /\ anchorUsed' = NoCorner
    /\ readyState' = IF type = "close"
                     THEN [readyState EXCEPT ![player] = "CLOSED"]
                     ELSE readyState
    /\ UNCHANGED <<gameField, playersState, currentMove, nMoves, diceLog,
                   firstAnchor, fairPlay, finished, listening, torn, mapKind,
                   abortedCount, destroyCalls, tornMsgs, geomIn, geomOut,
                   screen>>

(* a message reaches a listener after destroy() has run: _session is null  *)
(* and _playersState is null or the empty WeakMap of a failed restart      *)
Torn(player) ==
    /\ listening
    /\ torn
    /\ readyState[player] # "CLOSED"
    /\ tornMsgs < MaxTornMsgs

(* Game._onPlayerMove without a session: line 312 fails on the null        *)
(* _playersState, line 315 on the null _session, after _fillField          *)
TornPlayerMove(currentPlayer, m) ==
    /\ Torn(currentPlayer)
    /\ lastReq' = Req(currentPlayer, "playerMove", m)
    /\ heard' = TRUE
    /\ wiped' = NoWipe
    /\ tornMsgs' = tornMsgs + 1
    /\ anchorUsed' = NoCorner
    /\ UNCHANGED <<playersState, currentMove, nMoves, diceLog, firstAnchor,
                   fairPlay, finished, listening, readyState, torn, mapKind,
                   abortedCount, destroyCalls, geomIn, geomOut,
                   screen>>
    /\ IF ~IsOnTurn(currentPlayer)
       THEN /\ sent' = <<IncorrectRequest(currentPlayer, "Not your turn")>>
            /\ threw' = FALSE
            /\ UNCHANGED gameField
       ELSE LET checked == NeedsValidation(m)
                verdict == IF checked THEN ValidateMove(gameField, m) ELSE "true"
            IN
            IF verdict = "false"
            THEN /\ sent' = <<IncorrectRequest(currentPlayer, "wrong move")>>
                 /\ threw' = FALSE
                 /\ UNCHANGED gameField
            ELSE /\ sent' = <<>>
                 /\ threw' = TRUE
                 /\ gameField' = IF verdict = "true" /\ checked
                                 THEN FillField(m.color, gameField, m.from[1],
                                                m.from[2], m.to[1], m.to[2])
                                 ELSE gameField

(* Game._sendStartMessage without a session: the board and the WeakMap are *)
(* made anew, then this._session[0] fails at line 95                       *)
TornRepeatGame(player) ==
    /\ Torn(player)
    /\ lastReq' = Req(player, "repeatGame", NoMove)
    /\ heard' = TRUE
    /\ wiped' = NoWipe
    /\ tornMsgs' = tornMsgs + 1
    /\ anchorUsed' = NoCorner
    /\ gameField' = GenerateField
    /\ mapKind' = "fresh"
    /\ sent' = <<>>
    /\ threw' = TRUE
    /\ UNCHANGED <<playersState, currentMove, nMoves, diceLog, firstAnchor,
                   fairPlay, finished, listening, readyState, torn,
                   abortedCount, destroyCalls, geomIn, geomOut,
                   screen>>

(* Game._processMessage, the cases that use neither the session nor the    *)
(* sums, after destroy()                                                   *)
TornOtherMessage(player, type) ==
    /\ Torn(player)
    /\ lastReq' = Req(player, type, NoMove)
    /\ heard' = TRUE
    /\ wiped' = NoWipe
    /\ tornMsgs' = tornMsgs + 1
    /\ anchorUsed' = NoCorner
    /\ sent' = IF type = "incorrectRequest"
               THEN <<IncorrectRequest(player, "Can't parse JSON data")>>
               ELSE IF type = "incorrectResponse" THEN <<>>
               ELSE <<IncorrectRequest(player, "Unknown message type")>>
    /\ threw' = FALSE
    /\ UNCHANGED <<gameField, playersState, currentMove, nMoves, diceLog,
                   firstAnchor, fairPlay, finished, listening, readyState,
                   torn, mapKind, abortedCount, destroyCalls, geomIn, geomOut,
                   screen>>

(* payloads that parse but are no message: the JSON value null, and a      *)
(* playerMove without its move property                                    *)
BrokenKinds == {"null", "noMove"}

(* "null": message.type at line 203 reads a property of null;              *)
(* "noMove": _onPlayerMove gets undefined and reads its sum at line 260    *)
OnBrokenMessage(player, kind) ==
    /\ listening
    /\ readyState[player] # "CLOSED"
    /\ torn => tornMsgs < MaxTornMsgs
    /\ lastReq' = Req(player, kind, NoMove)
    /\ heard' = TRUE
    /\ wiped' = NoWipe
    /\ tornMsgs' = IF torn THEN tornMsgs + 1 ELSE tornMsgs
    /\ anchorUsed' = NoCorner
    /\ IF kind = "noMove" /\ ~IsOnTurn(player)
       THEN /\ sent' = <<IncorrectRequest(player, "Not your turn")>>
            /\ threw' = FALSE
       ELSE /\ sent' = <<>>
            /\ threw' = TRUE
    /\ UNCHANGED <<gameField, playersState, currentMove, nMoves, diceLog,
                   firstAnchor, fairPlay, finished, listening, readyState,
                   torn, mapKind, abortedCount, destroyCalls, geomIn, geomOut,
                   screen>>

(* the payloads tried against the connections *)
LifePayloads ==
    { Move(<<0, 0>>,   <<2, 1>>,   "r", 0, <<3, 3>>),
      Move(<<1, 0>>,   <<2, 1>>,   "r", 0, <<3, 3>>),
      Move(<<1, 0>>,   <<2, 1>>,   "r", 1, <<3, 3>>),
      Move(<<3, 0>>,   <<4, 2>>,   "r", 0, <<3, 3>>),
      Move(<<29, 29>>, <<27, 28>>, "b", 0, <<3, 3>>),
      Move(<<29, 29>>, <<27, 28>>, "r", 0, <<3, 3>>),
      Move(<<0, 0>>,   <<14, 29>>, "r", 0, <<225, 225>>) }

LifeNext ==
    \/ \E player \in Players, m \in LifePayloads :
          nMoves < MaxLifeMoves /\ OnPlayerMove(player, m)
    \/ \E player \in Players : OnRepeatGame(player)
    \/ \E player \in Players, type \in OtherTypes : OnOtherMessage(player, type)
    \/ \E player \in Players, kind \in BrokenKinds : OnBrokenMessage(player, kind)
    \/ \E player \in Players : OnClose(player)
    \/ Destroy
    \/ \E player \in Players, type \in UnheardTypes, m \in LifePayloads :
          Unheard(player, type, m)
    \/ \E player \in Players, m \in LifePayloads : TornPlayerMove(player, m)
    \/ \E player \in Players : TornRepeatGame(player)
    \/ \E player \in Players, type \in OtherTypes :
          TornOtherMessage(player, type)

LifeSpec == LifeInit /\ [][LifeNext]_vars

----------------------------------------------------------------------------
(* Play at the edge of the board: strips of twelve cells from the corner  *)
(* (0,0) along column 0 and along row 0, and the move that would carry    *)
(* the strip on beyond row 29 or beyond column 29.                        *)

EdgePayloads ==
    { Move(<<0, 0>>,   <<11, 0>>,  "r", 0, <<6, 6>>),
      Move(<<12, 0>>,  <<23, 0>>,  "r", 0, <<6, 6>>),
      Move(<<24, 0>>,  <<35, 0>>,  "r", 0, <<6, 6>>),
      Move(<<0, 0>>,   <<0, 11>>,  "r", 0, <<6, 6>>),
      Move(<<0, 12>>,  <<0, 23>>,  "r", 0, <<6, 6>>),
      Move(<<0, 24>>,  <<0, 35>>,  "r", 0, <<6, 6>>),
      Move(<<29, 29>>, <<27, 28>>, "b", 0, <<3, 3>>),
      Move(<<26, 29>>, <<25, 27>>, "b", 0, <<3, 3>>) }

EdgeNext ==
    \/ \E player \in Players, m \in EdgePayloads : OnPlayerMove(player, m)
    \/ \E player \in Players : OnRepeatGame(player)
    \/ \E player \in Players, type \in OtherTypes : OnOtherMessage(player, type)

EdgeSpec == Init /\ [][EdgeNext]_vars

----------------------------------------------------------------------------
(* The game screen of a player: update() applied to the snapshots the     *)
(* changePlayer messages of the session carry.                            *)

(* screens/game.js renderCell: the third class of the cell is replaced *)
RenderCell(cells, row, col, type) == [cells EXCEPT ![row][col] = type]

(* screens/game.js renderField: the cells of the snapshot that are        *)
(* 'default__cell' are passed over                                        *)
RenderField(cells, field) ==
    [i \in Rows |-> [j \in Rows |->
        IF field[i][j] # Default
        THEN RenderCell(cells, i, j, field[i][j])[i][j]
        ELSE cells[i][j]]]

(* screens/game.js update *)
Update(scr, msg) ==
    [cells |-> RenderField(scr.cells, msg.field), color |-> msg.color,
     myTurn |-> msg.myTurn, last |-> msg]

(* game.js changePlayer: the snapshot of a changePlayer goes to update() *)
ClientUpdate(player) ==
    /\ \E k \in DOMAIN sent :
          /\ sent[k].type = "changePlayer"
          /\ sent[k].to = player
          /\ screen' = [screen EXCEPT ![player] = Update(@, sent[k])]
    /\ UNCHANGED <<gameField, playersState, currentMove, sent, threw, lastReq,
                   heard, anchorUsed, nMoves, diceLog, firstAnchor, fairPlay,
                   finished, wiped, lifeVars, geomIn, geomOut>>

(* the messages are delivered in order: the session handles the next one  *)
(* when the screens have applied the snapshots of the last                *)
AllApplied ==
    \A k \in DOMAIN sent :
        sent[k].type = "changePlayer" => screen[sent[k].to].last = sent[k]

ViewPayloads ==
    { Move(<<0, 0>>,   <<2, 1>>,   "r", 0, <<3, 3>>),
      Move(<<3, 0>>,   <<4, 2>>,   "r", 0, <<3, 3>>),
      Move(<<29, 29>>, <<27, 28>>, "b", 0, <<3, 3>>),
      Move(<<0, 29>>,  <<2, 28>>,  "b", 0, <<3, 3>>) }

ViewNext ==
    \/ \E player \in Players, m \in ViewPayloads :
          AllApplied /\ nMoves < MaxViewMoves /\ OnPlayerMove(player, m)
    \/ \E player \in Players : AllApplied /\ OnRepeatGame(player)
    \/ \E player \in Players, type \in OtherTypes :
          AllApplied /\ OnOtherMessage(player, type)
    \/ \E player \in Players : ClientUpdate(player)

ViewSpec == Init /\ [][ViewNext]_vars

----------------------------------------------------------------------------
(* The move geometry on its own: _factorization and _showMoves applied to *)
(* every dice sum up to MaxN, from a few start cells, under the four sign *)
(* pairs.                                                                  *)

GeomCoords == {0, 14, Last}

GeomInputs ==
    {GeomIn(n, s1, s2, row, col) :
        n \in 1..MaxN, s1 \in {"+", "-"}, s2 \in {"+", "-"},
        row \in GeomCoords, col \in GeomCoords}

GeomInit ==
    /\ gameField = GenerateField
    /\ currentMove = 1
    /\ playersState = [p \in Players |-> 0]
    /\ sent = StartMessages(GenerateField)
    /\ threw = FALSE
    /\ lastReq = Req(0, "none", NoMove)
    /\ anchorUsed = NoCorner
    /\ nMoves = 0
    /\ diceLog = [p \in Players |-> [d \in DicePairs |-> 0]]
    /\ firstAnchor = [c \in {"r", "b"} |-> NoCorner]
    /\ fairPlay = TRUE
    /\ heard = TRUE
    /\ finished = FALSE
    /\ wiped = NoWipe
    /\ listening = TRUE
    /\ ConnectionsAtStart
    /\ screen = [p \in Players |-> ScreenAtLoad]
    /\ geomIn \in GeomInputs
    /\ geomOut = NoGeomOut

GeomApply ==
    /\ ~geomOut.done
    /\ geomOut' = LET numbers == Factorization(geomIn.n) IN
                  GeomOut(TRUE, numbers,
                          ShowMoves(numbers, geomIn.firstSign,
                                    geomIn.secondSign, geomIn.row, geomIn.col))
    /\ UNCHANGED <<gameField, playersState, currentMove, sent, threw, lastReq,
                   heard, anchorUsed, nMoves, diceLog, firstAnchor, fairPlay,
                   finished, wiped, lifeVars, geomIn, screen>>

GeomNext == GeomApply

GeomSpec == GeomInit /\ [][GeomNext]_vars

----------------------------------------------------------------------------
(* Vocabulary of the properties *)

IsMoveReq(r) == r.type = "playerMove"

HasType(msgs, type) == \E k \in DOMAIN msgs : msgs[k].type = type

(* a move is accepted when the handler reaches the broadcast *)
Accepted(msgs) == HasType(msgs, "changePlayer") \/ HasType(msgs, "gameResult")

Other(player) == 3 - player

Corners == {<<0, 0>>, <<0, Last>>, <<Last, 0>>, <<Last, Last>>}

Opposite(corner) == <<Last - corner[1], Last - corner[2]>>

(* the sign pair pointing from a corner into the board *)
InwardSigns(corner) ==
    << IF corner[1] = 0 THEN 1 ELSE -1, IF corner[2] = 0 THEN 1 ELSE -1 >>

Divisors(n) == {i \in 1..n : n % i = 0}

Displacements(n) == {<<i - 1, (n \div i) - 1>> : i \in Divisors(n)}

Reachable(from, to, signs, n) ==
    \E d \in Displacements(n) :
        to = <<from[1] + signs[1] * d[1], from[2] + signs[2] * d[2]>>

Max(a, b) == IF a < b THEN b ELSE a

RectCells(from, to) ==
    (Min(from[1], to[1])..Max(from[1], to[1]))
        \X (Min(from[2], to[2])..Max(from[2], to[2]))

RectUnclaimed(field, from, to) ==
    \A c \in RectCells(from, to) :
        c[1] \in Rows /\ c[2] \in Rows /\ field[c[1]][c[2]] = Default

ClaimedCorners(field) == {c \in Corners : field[c[1]][c[2]] # Default}

Owned(field, color) ==
    {c \in Rows \X Rows : field[c[1]][c[2]] = CellType(color)}

Adjacent(a, b) ==
    \/ a[1] = b[1] /\ (a[2] = b[2] + 1 \/ a[2] = b[2] - 1)
    \/ a[2] = b[2] /\ (a[1] = b[1] + 1 \/ a[1] = b[1] - 1)

Frontier(field, color) ==
    {c \in Rows \X Rows :
        /\ field[c[1]][c[2]] = Default
        /\ \E o \in Owned(field, color) : Adjacent(c, o)}

DiceTotal(dices) == dices[1] + dices[2]

RECURSIVE LogTotal(_, _)
LogTotal(log, pairs) ==
    IF pairs = {} THEN 0
    ELSE LET d == CHOOSE x \in pairs : TRUE
         IN  log[d] * DiceTotal(d) + LogTotal(log, pairs \ {d})

RECURSIVE LogCount(_, _)
LogCount(log, pairs) ==
    IF pairs = {} THEN 0
    ELSE LET d == CHOOSE x \in pairs : TRUE
         IN  log[d] + LogCount(log, pairs \ {d})

NoWinner(state) == \A p \in Players : state[p] < WinScore

----------------------------------------------------------------------------
(* C1: after a start the turn pointer is the first-seated player; every   *)
(* accepted playerMove comes from the player on turn and flips the turn   *)
(* pointer to the other player; a playerMove from the player who is not   *)
(* on turn gets one 'Not your turn' incorrectRequest, sent to that player *)
(* only, and leaves field, sums and turn pointer unchanged.               *)
C1_TurnAlternation ==
    /\ [](HasType(sent, "gameStarted") => currentMove = 1)
    /\ [][IsMoveReq(lastReq') =>
            IF lastReq'.player = currentMove
            THEN Accepted(sent') => currentMove' = Other(currentMove)
            ELSE /\ sent' = <<IncorrectRequest(lastReq'.player, "Not your turn")>>
                 /\ ~threw'
                 /\ UNCHANGED <<gameField, playersState, currentMove>>]_vars

(* the player who has just moved moves again at once and is turned away *)
C1_Witness ==
    /\ nMoves >= 1
    /\ IsMoveReq(lastReq)
    /\ lastReq.player # currentMove
    /\ sent = <<IncorrectRequest(lastReq.player, "Not your turn")>>

(* the checks of _checkFirstMove / _checkMove answer false: the start     *)
(* cell is not the required corner or frontier cell, the target is not    *)
(* reachable for the dice sum, or the rectangle holds a claimed cell      *)
RuleViolation(field, m) == ValidateMove(field, m) = "false"

(* C2: a playerMove of the player on turn that violates a rule, whatever  *)
(* else its payload holds, has one 'wrong move' incorrectRequest to the   *)
(* mover as its only effect: field, sums and turn pointer are unchanged.  *)
C2_RuleViolationRejected ==
    [][(/\ IsMoveReq(lastReq')
        /\ lastReq'.player = currentMove
        /\ RuleViolation(gameField, lastReq'.move)) =>
          /\ sent' = <<IncorrectRequest(lastReq'.player, "wrong move")>>
          /\ UNCHANGED <<gameField, playersState, currentMove>>]_vars

FirstMoveLegal(field, m) ==
    /\ m.from \in Corners
    /\ Reachable(m.from, m.to, InwardSigns(m.from), DiceTotal(m.dices))
    /\ RectUnclaimed(field, m.from, m.to)

(* C3: while the four corners are unclaimed, a playerMove of the player   *)
(* on turn is accepted if and only if its from is one of the four         *)
(* corners, its to is reachable from it for the dice sum under that       *)
(* corner's inward signs, and the rectangle between them is unclaimed.    *)
C3_FirstMoveIff ==
    [][(/\ IsMoveReq(lastReq')
        /\ lastReq'.player = currentMove
        /\ IsFieldEmpty(gameField)) =>
          (Accepted(sent') <=> FirstMoveLegal(gameField, lastReq'.move))]_vars

(* C4: while exactly one corner is claimed, a playerMove of the player on *)
(* turn is accepted only if its from is the corner diagonally opposite    *)
(* the claimed one and its to is reachable under that corner's signs.     *)
C4_OppositeCornerOnly ==
    [][(/\ IsMoveReq(lastReq')
        /\ lastReq'.player = currentMove
        /\ Cardinality(ClaimedCorners(gameField)) = 1
        /\ Accepted(sent')) =>
          \A c \in ClaimedCorners(gameField) :
             /\ lastReq'.move.from = Opposite(c)
             /\ Reachable(lastReq'.move.from, lastReq'.move.to,
                          InwardSigns(Opposite(c)),
                          DiceTotal(lastReq'.move.dices))]_vars

(* C5: once a colour owns cells, a move for that colour is accepted only  *)
(* if its from is a frontier cell of the colour, its to is reachable from *)
(* it under the signs of the colour's anchor corner, and the rectangle    *)
(* between them is unclaimed.  Stated for a game in which every accepted  *)
(* move, this one included, is as the client sends it (sum 0, the         *)
(* sender's own colour, dice in 1..6).                                    *)
C5_FrontierOnly ==
    [][(/\ IsMoveReq(lastReq')
        /\ lastReq'.player = currentMove
        /\ fairPlay'
        /\ Owned(gameField, lastReq'.move.color) # {}
        /\ firstAnchor[lastReq'.move.color] # NoCorner
        /\ Accepted(sent')) =>
          /\ lastReq'.move.from \in Frontier(gameField, lastReq'.move.color)
          /\ Reachable(lastReq'.move.from, lastReq'.move.to,
                       InwardSigns(firstAnchor[lastReq'.move.color]),
                       DiceTotal(lastReq'.move.dices))
          /\ RectUnclaimed(gameField, lastReq'.move.from, lastReq'.move.to)]_vars

(* C6: between restarts, every move of a colour after its first accepted *)
(* one is validated with the corner that first move fixed.  Stated for a  *)
(* game in which every accepted move, this one included, is as the client *)
(* sends it (sum 0, the sender's own colour, dice in 1..6).               *)
C6_AnchorFixed ==
    [][(/\ IsMoveReq(lastReq')
        /\ Accepted(sent')
        /\ fairPlay'
        /\ firstAnchor[lastReq'.move.color] # NoCorner) =>
          anchorUsed' = firstAnchor[lastReq'.move.color]]_vars

(* C7: no message other than repeatGame returns a claimed cell to         *)
(* unclaimed or changes its owner.                                        *)
C7_ClaimedCellsStay ==
    [][lastReq'.type # "repeatGame" =>
         \/ gameField' = gameField
         \/ \A i \in Rows, j \in Rows :
               gameField[i][j] # Default => gameField'[i][j] = gameField[i][j]]_vars

(* a move of the player on turn whose rectangle covers a claimed cell has *)
(* just been turned away                                                   *)
C7_Witness ==
    /\ IsMoveReq(lastReq)
    /\ lastReq.player = currentMove
    /\ lastReq.move.sum = 0
    /\ sent = <<IncorrectRequest(lastReq.player, "wrong move")>>
    /\ lastReq.move.from[1] \in {0, Last}
    /\ gameField[lastReq.move.from[1]][lastReq.move.from[2]] = Default
    /\ \E c \in RectCells(lastReq.move.from, lastReq.move.to) :
          c[1] \in Rows /\ c[2] \in Rows /\ gameField[c[1]][c[2]] # Default

(* C8: for a dice sum n in 1..MaxN the displacements computed by          *)
(* _factorization are exactly the pairs (i-1, n/i-1) of the divisors i of *)
(* n, each once and none undefined, and _showMoves maps exactly these to  *)
(* targets; n = 6 gives (0,5), (1,2), (2,1), (5,0) and n = 1 gives (0,0). *)
C8_Displacements ==
    geomOut.done =>
        LET n == geomIn.n
            numbers == geomOut.numbers
            s1 == IF geomIn.firstSign = "+" THEN 1 ELSE -1
            s2 == IF geomIn.secondSign = "+" THEN 1 ELSE -1
        IN
        /\ \A k \in DOMAIN numbers : numbers[k] # Hole
        /\ {numbers[k] : k \in DOMAIN numbers} = Displacements(n)
        /\ Len(numbers) = Cardinality(Divisors(n))
        /\ Len(geomOut.moves) = Len(numbers)
        /\ {geomOut.moves[k] : k \in DOMAIN geomOut.moves} =
             {<<geomIn.row + s1 * d[1], geomIn.col + s2 * d[2]>> :
                 d \in Displacements(n)}
        /\ n = 6 => {numbers[k] : k \in DOMAIN numbers} =
                      {<<0, 5>>, <<1, 2>>, <<2, 1>>, <<5, 0>>}
        /\ n = 1 => numbers = <<(<<0, 0>>)>>

C8_Witness == geomOut.done /\ geomIn.n = 12 /\ Len(geomOut.numbers) = 6

(* C9: each player's sum is the total of the dice of that player's        *)
(* accepted moves since the last start.                                   *)
C9_ScoreIsDiceTotal ==
    \A p \in Players : playersState[p] = LogTotal(diceLog[p], DicePairs)

(* a player with two accepted moves, the other with one, and a message    *)
(* that was turned away afterwards                                        *)
C9_Witness ==
    /\ \E p \in Players :
          /\ LogCount(diceLog[p], DicePairs) >= 2
          /\ LogCount(diceLog[Other(p)], DicePairs) >= 1
          /\ playersState[p] # playersState[Other(p)]
    /\ HasType(sent, "incorrectRequest")

(* C10: the accepted move that first brings a sum to WinScore or more     *)
(* sends exactly one gameResult to each player, with win telling whether  *)
(* the recipient's own sum reached WinScore, and no changePlayer; no      *)
(* gameResult is sent while both sums are below WinScore.                 *)
C10_WinBroadcast ==
    /\ [](NoWinner(playersState) => ~HasType(sent, "gameResult"))
    /\ [][(IsMoveReq(lastReq') /\ Accepted(sent')
             /\ NoWinner(playersState) /\ ~NoWinner(playersState')) =>
            sent' = << GameResult(1, playersState'[1] >= WinScore),
                       GameResult(2, playersState'[2] >= WinScore) >>]_vars

C10_Witness ==
    /\ HasType(sent, "gameResult")
    /\ \E p \in Players :
          playersState[p] >= WinScore /\ playersState[Other(p)] < WinScore

----------------------------------------------------------------------------
(* C11: once a gameResult has been broadcast, and until a repeatGame is   *)
(* handled, no playerMove changes the board, the sums or the turn pointer *)
(* or brings a further changePlayer or gameResult.                        *)
C11_FinishedFrozen ==
    [][(finished /\ ~torn /\ heard' /\ IsMoveReq(lastReq')) =>
          /\ UNCHANGED <<gameField, playersState, currentMove>>
          /\ ~Accepted(sent')]_vars

(* C12: a repeatGame handled by the session, whatever was played before,  *)
(* leaves the board, the sums and the turn pointer as session creation    *)
(* does and sends the gameStarted of session creation to both players.    *)
C12_RestartResets ==
    [][(lastReq'.type = "repeatGame" /\ heard' /\ ~torn) =>
          /\ gameField' = GenerateField
          /\ playersState' = [p \in Players |-> 0]
          /\ currentMove' = 1
          /\ sent' = << GameStarted(1, TRUE, GenerateField, "r"),
                        GameStarted(2, FALSE, GenerateField, "b") >>
          /\ ~threw']_vars

(* the second-seated player restarts a game that had a winner and one     *)
(* more accepted move after the win                                       *)
C12_Witness ==
    /\ lastReq = Req(2, "repeatGame", NoMove)
    /\ heard
    /\ ~torn
    /\ wiped.finished
    /\ wiped.moves >= 2
    /\ gameField = GenerateField
    /\ currentMove = 1
    /\ HasType(sent, "gameStarted")

(* C13: however close events and destroy() calls interleave, a player     *)
(* gets at most one gameAborted, gameAborted goes only to a socket that   *)
(* is open (not to the one whose close is being handled, nor to one that  *)
(* is closing or closed), and no invocation of destroy() throws.          *)
C13_TeardownIdempotent ==
    /\ [](\A p \in Players : abortedCount[p] <= 1)
    /\ [][\A k \in DOMAIN sent' :
            sent'[k].type = "gameAborted" =>
              /\ readyState[sent'[k].to] = "OPEN"
              /\ lastReq' # Req(sent'[k].to, "close", NoMove)]_vars
    /\ [][lastReq'.type \in {"close", "destroy"} => ~threw']_vars

(* one player's close ran the teardown, the other player got the one      *)
(* gameAborted, and destroy() was invoked again afterwards                *)
C13_Witness ==
    \E p \in Players :
        /\ torn
        /\ destroyCalls >= 2
        /\ readyState[p] = "CLOSED"
        /\ abortedCount[p] = 0
        /\ abortedCount[Other(p)] = 1
        /\ lastReq.type \in {"close", "destroy"}
        /\ sent = <<>>

(* C14: a playerMove, a repeatGame or a message of another type that is   *)
(* handled after destroy() has run does not throw, sends nothing and      *)
(* changes neither the board, the sums, the turn pointer nor the nulled   *)
(* references.                                                            *)
C14_TornNoOp ==
    [][(torn /\ heard'
          /\ lastReq'.type \in {"playerMove", "repeatGame"} \cup OtherTypes) =>
          /\ ~threw'
          /\ sent' = <<>>
          /\ UNCHANGED <<gameField, playersState, currentMove, mapKind>>]_vars

(* C15: for a payload that does not parse, a message of unknown type, a   *)
(* JSON value without a type and a playerMove without a move, the session *)
(* sends exactly one incorrectRequest, to the sender, the handler does    *)
(* not throw, and the board, the sums and the turn pointer stay.          *)
C15_MalformedAnswered ==
    [][(heard' /\ ~torn
          /\ lastReq'.type \in BrokenKinds \cup {"incorrectRequest", "unknown"}) =>
          /\ Len(sent') = 1
          /\ sent'[1].type = "incorrectRequest"
          /\ sent'[1].to = lastReq'.player
          /\ ~threw'
          /\ UNCHANGED <<gameField, playersState, currentMove>>]_vars

(* C16: whatever sends failed before, also a gameStarted at session       *)
(* creation, a legal playerMove that arrives from the player on turn is   *)
(* accepted and a close that arrives runs the teardown.                   *)
C16_SessionNotBlocked ==
    /\ [][(IsMoveReq(lastReq') /\ ~torn
             /\ lastReq'.player = currentMove
             /\ AsClientSends(lastReq'.player, lastReq'.move)
             /\ ValidateMove(gameField, lastReq'.move) = "true") =>
            Accepted(sent')]_vars
    /\ [][lastReq'.type = "close" => torn']_vars

(* C17: an accepted move that does not end the game sends exactly one     *)
(* changePlayer to each player, both with the board as the move left it,  *)
(* myTurn true for the player the turn pointer now names and false for    *)
(* the mover, and color the recipient's own assigned color.               *)
C17_ChangePlayerBroadcast ==
    [][(heard' /\ ~torn /\ IsMoveReq(lastReq') /\ Accepted(sent')
          /\ ~HasType(sent', "gameResult")) =>
          /\ Len(sent') = 2
          /\ {sent'[k].to : k \in 1..2} = Players
          /\ \A k \in 1..2 :
                /\ sent'[k].type = "changePlayer"
                /\ sent'[k].field = gameField'
                /\ sent'[k].myTurn = (sent'[k].to = currentMove')
                /\ sent'[k].to = lastReq'.player => ~sent'[k].myTurn
                /\ sent'[k].color = AssignedColor(sent'[k].to)]_vars

(* C18: every accepted move claims the rectangle with from and to as      *)
(* opposite corners, whichever coordinate is the smaller in each          *)
(* dimension; the rectangle has exactly (dice sum) cells, all of them     *)
(* unclaimed before and claimed after, and no other cell changes.         *)
C18_RectangleClaimed ==
    [][(heard' /\ ~torn /\ IsMoveReq(lastReq') /\ Accepted(sent')) =>
          LET m == lastReq'.move
              rect == RectCells(m.from, m.to)
          IN /\ Cardinality(rect) = DiceTotal(m.dices)
             /\ \A c \in rect : /\ gameField[c[1]][c[2]] = Default
                                /\ gameField'[c[1]][c[2]] # Default
             /\ \A c \in (Rows \X Rows) \ rect :
                   gameField'[c[1]][c[2]] = gameField[c[1]][c[2]]]_vars

(* C19: every accepted move carries two dice in 1..6 each and raises the  *)
(* mover's sum by at least 2 and at most 12, and a sum of WinScore or     *)
(* more takes at least 38 accepted moves of that player.                  *)
C19_DiceInRange ==
    /\ [][(heard' /\ ~torn /\ IsMoveReq(lastReq') /\ Accepted(sent')) =>
            LET m == lastReq'.move
                p == lastReq'.player
            IN /\ m.dices[1] \in 1..6
               /\ m.dices[2] \in 1..6
               /\ playersState'[p] - playersState[p] \in 2..12]_vars
    /\ [](\A p \in Players :
            playersState[p] >= WinScore =>
              LogCount(diceLog[p], DicePairs) >= 38)

(* C20: between restarts each player's sum equals the number of cells of  *)
(* the board that carry that player's color.                              *)
C20_ScoreIsCellCount ==
    ~torn =>
      \A p \in Players :
          playersState[p] = Cardinality(Owned(gameField, AssignedColor(p)))

(* C21: the cells an accepted move claims carry the color assigned to the *)
(* sender at the start, and the corner the move is checked against is the *)
(* one of the sender's assigned color, whatever color the payload has.    *)
C21_AssignedColorOnly ==
    [][(heard' /\ ~torn /\ IsMoveReq(lastReq') /\ Accepted(sent')) =>
          LET p == lastReq'.player
              own == [lastReq'.move EXCEPT !.color = AssignedColor(p)]
          IN /\ \A c \in Rows \X Rows :
                   gameField'[c[1]][c[2]] # gameField[c[1]][c[2]] =>
                     gameField'[c[1]][c[2]] = CellType(AssignedColor(p))
             /\ anchorUsed' # NoCorner =>
                   anchorUsed' = AnchorOf(gameField, own)]_vars

OutOfGrid(c) == c[1] \notin Rows \/ c[2] \notin Rows

(* from is the corner the move starts the territory at, or a frontier     *)
(* cell of the territory, and to is one of the targets of the dice        *)
WellAimed(field, m) ==
    LET a == AnchorOf(field, m) IN
    /\ a \in Corners
    /\ \/ m.from = a /\ field[a[1]][a[2]] = Default
       \/ m.from \in Frontier(field, m.color)
    /\ Reachable(m.from, m.to, InwardSigns(a), DiceTotal(m.dices))

(* C22: a playerMove of the player on turn, as a client builds it after   *)
(* fair play, from a valid corner or frontier cell to a target that the   *)
(* dice reach but that lies outside the grid, is answered with one        *)
(* 'wrong move'; the handler does not throw and the board, the sums and   *)
(* the turn pointer stay.                                                 *)
C22_OutOfGridRejected ==
    [][(heard' /\ ~torn /\ IsMoveReq(lastReq')
          /\ lastReq'.player = currentMove
          /\ fairPlay
          /\ AsClientSends(lastReq'.player, lastReq'.move)
          /\ OutOfGrid(lastReq'.move.to)
          /\ WellAimed(gameField, lastReq'.move)) =>
          /\ sent' = <<IncorrectRequest(lastReq'.player, "wrong move")>>
          /\ ~threw'
          /\ UNCHANGED <<gameField, playersState, currentMove>>]_vars

(* C23: in the first gameResult round since the last start, the sender of *)
(* the move that brought it gets win = true and the other player gets     *)
(* win = false, one message each.                                         *)
C23_MoverWinsFirstRound ==
    [][(heard' /\ ~torn /\ IsMoveReq(lastReq') /\ ~finished
          /\ HasType(sent', "gameResult")) =>
          sent' = << GameResult(1, lastReq'.player = 1),
                     GameResult(2, lastReq'.player = 2) >>]_vars

(* the second-seated player's move is the first of the game to bring a    *)
(* sum to WinScore, after an accepted move of the first-seated player     *)
C23_Witness ==
    /\ lastReq.type = "playerMove"
    /\ lastReq.player = 2
    /\ heard
    /\ ~torn
    /\ finished
    /\ nMoves >= 2
    /\ playersState[2] >= WinScore
    /\ playersState[2] - DiceTotal(lastReq.move.dices) < WinScore
    /\ playersState[1] < WinScore
    /\ sent = <<GameResult(1, FALSE), GameResult(2, TRUE)>>

(* C24: after a screen applies update() to a snapshot, every cell it      *)
(* shows equals the cell of the snapshot, also for a snapshot of a new    *)
(* game in which cells of the game before are unclaimed again.            *)
C24_ScreenShowsSnapshot ==
    [][\A p \in Players :
          screen'[p] # screen[p] =>
            screen'[p].cells = screen'[p].last.field]_vars

====
